---- MODULE Spec2Model ----
(***************************************************************************)
(* State-machine model of the open_read PDF reader:                        *)
(*   - PDFViewer (src/src/components/PDFViewer.tsx): the render effect     *)
(*     (loadPdf / renderPage), the text-layer fragments with their click,  *)
(*     blur and keydown handlers, and the edit restore step;               *)
(*   - DictionaryBubble (src/unnamed/part_000): the lookup effect          *)
(*     (fetchDefinition / fetchOnlineDefinition);                          *)
(*   - App (src/src/App.tsx): handleSelection and the bubble mount.        *)
(* The tab store (useTabStore) is not part of the sources; saveEdit is     *)
(* modelled from the specification's description of Document.edits.        *)
(***************************************************************************)
EXTENDS Integers, Sequences, FiniteSets, TLC

VARIABLES
    isEditMode,      \* store: edit mode flag
    isDarkMode,      \* store: dark mode flag
    edits,           \* store: Document.edits of the viewer's tab (FragmentId -> text)
    currentTabRef,   \* PDFViewer: currentTabRef.current.edits
    mounted,         \* PDFViewer is mounted (containerRef.current # null)
    passes,          \* every run of the render effect, oldest first
    container,       \* children of containerRef.current, in DOM order
    focus,           \* <<node, fragment>> of the focused span, <<0, 0>> if none
    committed,       \* history: the text last handed to saveEdit, per fragment
    clicks,          \* history: number of span activations so far
    fault,           \* the document: which pdf.js call rejects, if any
    word,            \* App: selection.text shown by the bubble, <<>> if none
    bubbleInst,      \* number of the mounted DictionaryBubble instance
    lookups,         \* every run of fetchDefinition, oldest first
    definitions,     \* DictionaryBubble state
    loading,         \* DictionaryBubble state
    source,          \* DictionaryBubble state: "null", "local", "online"
    env,             \* runtime: how the local (Tauri) source behaves
    layout,          \* the document: which spans the text layer builds for its items
    scrollTop,       \* containerRef.current.scrollTop
    scrollPosition,  \* store: the tab's saved scrollPosition.y, <<>> if none
    burst,           \* history: the scroll events since the last saved position
    clickListener,   \* DictionaryBubble: the mousedown listener is registered
    dismissTimer,    \* DictionaryBubble: ms left of the registration delay, <<>> if none
    opening,         \* history: the time since the bubble opened
    ctx,             \* the 2d context of a page's canvas during page.render
    selection        \* App: selection.text as stored, <<>> if null

viewerVars == <<isEditMode, isDarkMode, edits, currentTabRef, mounted, passes,
                container, focus, committed, clicks, fault>>

lookupVars == <<word, bubbleInst, lookups, definitions, loading, source, env>>

scrollVars == <<scrollTop, scrollPosition, burst>>

dismissVars == <<clickListener, dismissTimer, opening>>

auxVars == <<layout, scrollTop, scrollPosition, burst, clickListener,
             dismissTimer, opening, ctx, selection>>

vars == <<isEditMode, isDarkMode, edits, currentTabRef, mounted, passes,
          container, focus, committed, clicks, fault,
          word, bubbleInst, lookups, definitions, loading, source, env,
          layout, scrollTop, scrollPosition, burst, clickListener,
          dismissTimer, opening, ctx, selection>>

----------------------------------------------------------------------------
(* Bounds *)

\* pages of the document (pdf.numPages)
NumPages == 2

\* runs of the render effect: the mount plus the mode toggles
MaxPasses == 2

\* activations (clicks) of spans by the user
MaxClicks == 1

\* runs of the lookup effect
MaxLookups == 2

\* runs of the render effect when only the tone is toggled
MaxTonePasses == 3

\* operations page.render performs on the canvas context of a page
MaxOps == 4

\* scroll events made by the user
MaxScrolls == 2

\* runs of the render effect when the edit mode is toggled with a bubble
MaxModePasses == 3

\* the step of the clock, in ms
TickMs == 100

----------------------------------------------------------------------------
(* Timers: <<>> is no timer, <<ms>> a pending timer with ms left to run *)

\* setTimeout(..., 300) of handleScroll
QuietPeriod == 300

\* setTimeout(..., 100) of the scroll restore
RestoreDelay == 100

\* setTimeout(..., 150) of the dismissal effect
DismissDelay == 150

\* variant of DismissTimeout: the listener is registered with no delay
DismissTimeoutNone == <<0>>

\* setTimeout(..., 150) of the dismissal effect
DismissTimeout == <<DismissDelay>>

\* a timer after TickMs have passed
Elapse(t) ==
    IF t = <<>> THEN <<>>
    ELSE IF t[1] > TickMs THEN <<t[1] - TickMs>> ELSE <<0>>

\* the timer's delay has passed: its callback can run
Due(t) == t # <<>> /\ t[1] = 0

\* a history clock after TickMs have passed; it stops at the quiet period
Later(ms) == IF ms + TickMs < QuietPeriod THEN ms + TickMs ELSE QuietPeriod

\* the scroll offsets the container can have with pages in it
ScrollOffsets == {0, 1, 2}

\* no scroll event yet, nothing written
NoBurst ==
    [since |-> QuietPeriod, pass |-> 0, unsaved |-> FALSE, events |-> 0,
     last |-> 0, merged |-> 0,
     writes |-> 0, writer |-> 0, writerActive |-> TRUE, writeAfter |-> QuietPeriod]

\* the bubble is not open
NoOpening == [since |-> 0, ignored |-> FALSE]

----------------------------------------------------------------------------
(* Text: a string is a sequence of one-character strings *)

Whitespace == {" "}

IsSpace(c) == c \in Whitespace

RECURSIVE TrimLeft(_)
TrimLeft(s) ==
    IF s = <<>> THEN <<>>
    ELSE IF IsSpace(Head(s)) THEN TrimLeft(Tail(s)) ELSE s

RECURSIVE TrimRight(_)
TrimRight(s) ==
    IF s = <<>> THEN <<>>
    ELSE IF IsSpace(s[Len(s)]) THEN TrimRight(SubSeq(s, 1, Len(s) - 1)) ELSE s

\* String.prototype.trim
Trim(s) == TrimRight(TrimLeft(s))

\* the text item of span idx on page pageNum (textContent.items[idx].str)
Orig(pageNum, idx) == <<"a">>

\* text items of a page (textContent.items.length): page 1 has two
SpanCount(pageNum) == IF pageNum = 1 THEN 2 ELSE 1

\* what the text layer can build: a span for every text item, or no span for
\* the first item of page 1
Layouts == {"perItem", "dropsFirst"}

\* textLayerDiv.querySelectorAll('span'): the text item of each span, in
\* document order
SpanItems(pageNum) ==
    IF layout = "dropsFirst" /\ pageNum = 1
    THEN <<1>>
    ELSE [k \in 1..SpanCount(pageNum) |-> k - 1]

\* what a user can leave in a span being edited
EditTexts == {<<>>, <<" ">>, <<"b">>}

\* a number in a template literal: its decimal digits
RECURSIVE Digits(_)
Digits(n) ==
    LET digit == <<"0", "1", "2", "3", "4", "5", "6", "7", "8", "9">>
    IN  IF n < 10 THEN <<digit[n + 1]>>
        ELSE Digits(n \div 10) \o <<digit[(n % 10) + 1]>>

\* variant of SpanId: the page number alone
SpanIdPageOnly(pageNum, idx) == <<"p">> \o Digits(pageNum)

\* `p${pageNum}-s${idx}`
SpanId(pageNum, idx) ==
    <<"p">> \o Digits(pageNum) \o <<"-", "s">> \o Digits(idx)

NoFocus == <<0, 0>>

----------------------------------------------------------------------------
(* The document: at most one pdf.js call of the document rejects *)

PageStages == {"getPage", "render", "getTextContent", "textLayer"}

NoFault == [page |-> 0, stage |-> "none"]

Faults ==
    {NoFault, [page |-> 0, stage |-> "getDocument"]}
        \cup {[page |-> k, stage |-> s] : k \in 1..NumPages, s \in PageStages}

Rejects(pageNum, stage) == fault = [page |-> pageNum, stage |-> stage]

----------------------------------------------------------------------------
(* The store (useTabStore): modelled from the specification *)

\* saveEdit(tabId, spanId, text): persist {fragmentId: text}, later edits overwrite
saveEdit(store, id, text) ==
    [x \in (DOMAIN store) \cup {id} |-> IF x = id THEN text ELSE store[x]]

----------------------------------------------------------------------------
(* Scroll events of the container *)

\* setSelection(null): the bubble unmounts, the cleanup of its dismissal
\* effect clears the timer and removes the listeners
HideBubble ==
    /\ selection' = <<>>
    /\ word' = <<>>
    /\ definitions' = <<>>
    /\ loading' = TRUE
    /\ source' = "null"
    /\ clickListener' = FALSE
    /\ dismissTimer' = <<>>
    /\ UNCHANGED <<bubbleInst, lookups, env, opening>>

\* variant of Debounced: a timer that is not cleared stays, the new one is lost
DebouncedKeepFirst(t) == IF t = <<>> THEN <<QuietPeriod>> ELSE t

\* handleScroll of the render effect: clearTimeout, then setTimeout(..., 300)
Debounced(t) == <<QuietPeriod>>

\* the scroll offset of the container becomes y (user = 1 when the user
\* scrolls): if it changes, a scroll event goes to the listeners of the latest
\* run of the effects, handleScroll (debounce) and onScroll (App.handleScroll
\* hides the bubble); ps is passes as the calling handler leaves it
ScrollTo(y, ps, user) ==
    IF y = scrollTop
    THEN /\ passes' = ps
         /\ UNCHANGED <<scrollTop, burst, word, bubbleInst, lookups, definitions,
                        loading, source, env, clickListener, dismissTimer, opening,
                        selection>>
    ELSE /\ scrollTop' = y
         /\ passes' = [ps EXCEPT ![Len(ps)].scrollTimeout = Debounced(@)]
         /\ burst' = [burst EXCEPT !.since = 0, !.pass = Len(ps),
                                   !.unsaved = TRUE, !.writes = 0,
                                   !.events = @ + user, !.last = y,
                                   !.merged = IF burst.unsaved /\ burst.since < QuietPeriod
                                              THEN @ + 1 ELSE 1]
         /\ IF selection # <<>> THEN HideBubble
            ELSE UNCHANGED <<word, bubbleInst, lookups, definitions, loading,
                             source, env, clickListener, dismissTimer, opening,
                             selection>>

\* the offset the container can take for a wanted offset: 0 when it is empty
Clamp(y) == IF container = <<>> THEN 0 ELSE y

----------------------------------------------------------------------------
(* PDFViewer: the render effect *)

Cur == Len(passes)

NewPass(editMode, darkMode, tab) ==
    [active |-> TRUE, pc |-> "getDocument", i |-> 0,
     editMode |-> editMode, darkMode |-> darkMode, tabSnap |-> tab,
     error |-> FALSE, warned |-> FALSE,
     scrollTimeout |-> <<>>, restoreTimer |-> <<>>, savedAtStart |-> <<>>,
     restored |-> FALSE]

\* variant of RestoreTab: the currentTab captured by the effect's closure
RestoreTabStale(p) == passes[p].tabSnap

\* the tab record the restore step reads: currentTabRef.current, kept fresh by
\* the [currentTab] effect
RestoreTab(p) == currentTabRef

\* tab?.edits && tab.edits[spanId]
HasEdit(tab, id) == id \in DOMAIN tab /\ tab[id] # <<>>

\* one span of the text layer after spans.forEach has run on it
BuildSpan(p, pageNum, idx) ==
    LET id == SpanId(pageNum, idx)
        tab == RestoreTab(p)
        has == HasEdit(tab, id)
    IN  [id |-> id,
         item |-> SpanItems(pageNum)[idx + 1],
         fontItem |-> idx,
         text |-> IF has THEN tab[id]
                  ELSE Orig(pageNum, SpanItems(pageNum)[idx + 1]),
         marker |-> has,
         restored |-> has,
         wired |-> passes[p].editMode,
         dark |-> passes[p].darkMode,
         editable |-> FALSE,
         outline |-> FALSE,
         color |-> "css",
         bg |-> "css",
         atClick |-> <<>>]

BuildSpans(p, pageNum) ==
    [k \in 1..Len(SpanItems(pageNum)) |-> BuildSpan(p, pageNum, k - 1)]

\* variant of SpanLog: the listeners and the font first, the restore last
SpanLogWiredFirst(idx) ==
    <<[op |-> "font", idx |-> idx], [op |-> "wire", idx |-> idx],
      [op |-> "restore", idx |-> idx]>>

\* the steps of the body of spans.forEach on one span, in statement order: the
\* restore of a persisted edit, the font, the listeners (or the read-only
\* settings)
SpanLog(idx) ==
    <<[op |-> "restore", idx |-> idx], [op |-> "font", idx |-> idx],
      [op |-> "wire", idx |-> idx]>>

\* the steps of spans.forEach over the spans idx .. of a page
RECURSIVE ForEachLog(_, _)
ForEachLog(pageNum, idx) ==
    IF idx >= Len(SpanItems(pageNum)) THEN <<>>
    ELSE SpanLog(idx) \o ForEachLog(pageNum, idx + 1)

\* page.getViewport({ scale }) with scale = 1.5 (in tenths): a new object on
\* every call, obj numbers the calls made for the page by a pass
GetViewport(pageNum, serial) ==
    [page |-> pageNum, scale |-> 15, width |-> 918, height |-> 1188,
     obj |-> serial]

\* no viewport handed over yet
NoViewport == [page |-> 0, scale |-> 0, width |-> 0, height |-> 0, obj |-> 0]

\* renderContext.viewport
RasterViewport(node) == node.viewport

\* variant of TextViewport: a viewport computed again for the text layer
TextViewportRecomputed(node) == GetViewport(node.page, node.viewport.obj + 1)

\* the viewport option of new pdfjs.TextLayer
TextViewport(node) == node.viewport

\* the viewport whose width and height are reasserted after textLayer.render
ResetViewport(node) == node.viewport

\* the page container renderPage creates, with the raster render started
NewNode(p, pageNum) ==
    LET node == [pass |-> p, page |-> pageNum, raster |-> FALSE,
                 frags |-> <<>>, afterTeardown |-> ~passes[p].active,
                 viewport |-> GetViewport(pageNum, 1),
                 rasterViewport |-> NoViewport, textViewport |-> NoViewport,
                 resetViewport |-> NoViewport, log |-> <<>>]
    IN  [node EXCEPT !.rasterViewport = RasterViewport(node)]

\* the page container after the text layer is built on it
WithTextLayer(node, p) ==
    [node EXCEPT !.textViewport = TextViewport(node),
                 !.resetViewport = ResetViewport(node),
                 !.frags = BuildSpans(p, node.page),
                 !.log = ForEachLog(node.page, 0)]

\* the page container a pass appended for a page, 0 when it is not in the DOM
FindNode(p, pageNum) ==
    LET hits == {n \in 1..Len(container) :
                    container[n].pass = p /\ container[n].page = pageNum}
    IN  IF hits = {} THEN 0 ELSE CHOOSE n \in hits : TRUE

\* the catch of loadPdf: the pass ends, the error is logged
Abort(p) ==
    passes' = [passes EXCEPT ![p].pc = "done", ![p].error = TRUE]

\* renderPage(pdf, i) returned: the loop goes on, or loadPdf ends
AfterPage(p, ps) ==
    IF ps[p].i + 1 <= NumPages
    THEN [ps EXCEPT ![p].pc = "getPage", ![p].i = ps[p].i + 1]
    ELSE [ps EXCEPT ![p].pc = "done",
                    ![p].restoreTimer =
                        IF scrollPosition # <<>> THEN <<RestoreDelay>> ELSE <<>>]

\* await loadingTask.promise, then the active check and innerHTML = ''
GetDocumentDone(p) ==
    /\ passes[p].pc = "getDocument"
    /\ IF Rejects(0, "getDocument")
       THEN /\ Abort(p)
            /\ UNCHANGED <<container, focus, scrollTop, burst>>
            /\ UNCHANGED <<lookupVars, dismissVars, selection>>
       ELSE IF ~passes[p].active \/ ~mounted
       THEN /\ passes' = [passes EXCEPT ![p].pc = "done"]
            /\ UNCHANGED <<container, focus, scrollTop, burst>>
            /\ UNCHANGED <<lookupVars, dismissVars, selection>>
       ELSE /\ container' = <<>>
            /\ focus' = NoFocus
            /\ ScrollTo(0, [passes EXCEPT ![p].pc = "getPage", ![p].i = 1], 0)
    /\ UNCHANGED <<isEditMode, isDarkMode, edits, currentTabRef, mounted,
                   committed, clicks, fault>>
    /\ UNCHANGED <<layout, scrollPosition, ctx>>

\* await pdf.getPage(i), then the page container is built and appended
GetPageDone(p) ==
    /\ passes[p].pc = "getPage"
    /\ IF Rejects(passes[p].i, "getPage")
       THEN /\ Abort(p)
            /\ UNCHANGED container
       ELSE /\ passes' = [passes EXCEPT ![p].pc = "render"]
            /\ container' =
                 IF mounted
                 THEN Append(container, NewNode(p, passes[p].i))
                 ELSE container
    /\ UNCHANGED <<isEditMode, isDarkMode, edits, currentTabRef, mounted,
                   focus, committed, clicks, fault>>
    /\ UNCHANGED lookupVars
    /\ UNCHANGED auxVars

\* variant of RenderDone: renderPage goes on without the raster being done
RenderNotAwaited(p) ==
    /\ passes[p].pc = "render"
    /\ passes' = [passes EXCEPT ![p].pc = "textLayer"]
    /\ UNCHANGED <<isEditMode, isDarkMode, edits, currentTabRef, mounted,
                   container, focus, committed, clicks, fault>>
    /\ UNCHANGED <<word, bubbleInst, lookups, definitions, loading, source, env>>
    /\ UNCHANGED auxVars

\* await page.render(renderContext).promise
RenderDone(p) ==
    /\ passes[p].pc = "render"
    /\ IF Rejects(passes[p].i, "render")
       THEN /\ Abort(p)
            /\ UNCHANGED container
       ELSE /\ passes' = [passes EXCEPT ![p].pc = "textLayer"]
            /\ LET n == FindNode(p, passes[p].i)
               IN  container' = IF n = 0 THEN container
                                ELSE [container EXCEPT ![n].raster = TRUE]
    /\ UNCHANGED <<isEditMode, isDarkMode, edits, currentTabRef, mounted,
                   focus, committed, clicks, fault>>
    /\ UNCHANGED lookupVars
    /\ UNCHANGED auxVars

\* await page.getTextContent() (outside the try of renderPage), then inside the
\* try await textLayer.render(), the cleanup and spans.forEach; a rejection of
\* the first ends the pass, a rejection of the second is caught in renderPage.
\* Nothing is written between the two awaits, so they are one step.
TextLayerDone(p) ==
    /\ passes[p].pc = "textLayer"
    /\ IF Rejects(passes[p].i, "getTextContent")
       THEN /\ Abort(p)
            /\ UNCHANGED container
       ELSE IF Rejects(passes[p].i, "textLayer")
       THEN /\ passes' = AfterPage(p, [passes EXCEPT ![p].warned = TRUE])
            /\ LET n == FindNode(p, passes[p].i)
               IN  container' =
                     IF n = 0 THEN container
                     ELSE [container EXCEPT
                             ![n].textViewport = TextViewport(container[n])]
       ELSE /\ passes' = AfterPage(p, passes)
            /\ LET n == FindNode(p, passes[p].i)
               IN  container' =
                     IF n = 0 THEN container
                     ELSE [container EXCEPT ![n] = WithTextLayer(@, p)]
    /\ UNCHANGED <<isEditMode, isDarkMode, edits, currentTabRef, mounted,
                   focus, committed, clicks, fault>>
    /\ UNCHANGED lookupVars
    /\ UNCHANGED auxVars

\* variant of CleanedUp: the cleanup leaves the timer alone
NotCleanedUp(t) == t

\* the cleanup's clearTimeout(scrollTimeout)
CleanedUp(t) == <<>>

\* the effect's cleanup followed by its next run (a dependency changed)
Rerun(editMode, darkMode) ==
    passes' = Append([passes EXCEPT ![Cur].active = FALSE,
                                    ![Cur].scrollTimeout = CleanedUp(@)],
                     [NewPass(editMode, darkMode, edits)
                         EXCEPT !.savedAtStart = scrollPosition])

\* the dark mode toggle of the store; isDarkMode is a dependency of the effect
\* (limit caps the runs of the effect)
ToggleDarkModeUpTo(limit) ==
    /\ mounted
    /\ focus = NoFocus
    /\ Len(passes) < limit
    /\ isDarkMode' = ~isDarkMode
    /\ Rerun(isEditMode, ~isDarkMode)
    /\ clickListener' = IF word # <<>> THEN FALSE ELSE clickListener
    /\ dismissTimer' = IF word # <<>> THEN DismissTimeout ELSE dismissTimer
    /\ UNCHANGED <<isEditMode, edits, currentTabRef, mounted, container, focus,
                   committed, clicks, fault>>
    /\ UNCHANGED lookupVars
    /\ UNCHANGED <<layout, scrollVars, opening, ctx, selection>>

ToggleDarkMode == ToggleDarkModeUpTo(MaxPasses)

\* the tab is closed or another tab is activated: the viewer (keyed by tab id)
\* unmounts, its cleanup runs and containerRef.current becomes null
Unmount ==
    /\ mounted
    /\ mounted' = FALSE
    /\ passes' = [passes EXCEPT ![Cur].active = FALSE,
                                ![Cur].scrollTimeout = CleanedUp(@)]
    /\ container' = <<>>
    /\ focus' = NoFocus
    /\ scrollTop' = 0
    /\ UNCHANGED <<isEditMode, isDarkMode, edits, currentTabRef, committed, clicks, fault>>
    /\ UNCHANGED lookupVars
    /\ UNCHANGED <<layout, scrollPosition, burst, dismissVars, ctx, selection>>

\* the user scrolls the container to offset y
Scroll(y) ==
    /\ mounted
    /\ container # <<>>
    /\ burst.events < MaxScrolls
    /\ y # scrollTop
    /\ ScrollTo(y, passes, 1)
    /\ UNCHANGED <<isEditMode, isDarkMode, edits, currentTabRef, mounted,
                   container, focus, committed, clicks, fault>>
    /\ UNCHANGED <<layout, scrollPosition, ctx>>

\* the callback of the debounce timer of pass p: updateTab(tabId,
\* { scrollPosition }) with the offset of the container at that moment; the
\* store update renders App again, which hands the bubble a new onClose, so
\* the dismissal effect of an open bubble runs again
ScrollTimerFire(p) ==
    /\ Due(passes[p].scrollTimeout)
    /\ passes' = [passes EXCEPT ![p].scrollTimeout = <<>>]
    /\ IF mounted
       THEN /\ scrollPosition' = <<scrollTop>>
            /\ burst' = [burst EXCEPT !.unsaved = FALSE, !.writes = @ + 1,
                                      !.writer = p,
                                      !.writerActive = @ /\ passes[p].active,
                                      !.writeAfter = burst.since]
            /\ clickListener' = IF word # <<>> THEN FALSE ELSE clickListener
            /\ dismissTimer' = IF word # <<>> THEN DismissTimeout ELSE dismissTimer
       ELSE UNCHANGED <<scrollPosition, burst, clickListener, dismissTimer>>
    /\ UNCHANGED <<isEditMode, isDarkMode, edits, currentTabRef, mounted,
                   container, focus, committed, clicks, fault>>
    /\ UNCHANGED lookupVars
    /\ UNCHANGED <<layout, scrollTop, opening, ctx, selection>>

\* the callback of the restore timer of pass p: scrollTop is set to the saved
\* position as it is at that moment
RestoreTimerFire(p) ==
    /\ Due(passes[p].restoreTimer)
    /\ IF mounted /\ scrollPosition # <<>>
       THEN ScrollTo(Clamp(scrollPosition[1]),
                     [passes EXCEPT ![p].restoreTimer = <<>>,
                                    ![p].restored = TRUE], 0)
       ELSE /\ passes' = [passes EXCEPT ![p].restoreTimer = <<>>]
            /\ UNCHANGED <<scrollTop, burst>>
            /\ UNCHANGED <<lookupVars, dismissVars, selection>>
    /\ UNCHANGED <<isEditMode, isDarkMode, edits, currentTabRef, mounted,
                   container, focus, committed, clicks, fault>>
    /\ UNCHANGED <<layout, scrollPosition, ctx>>

\* TickMs pass: every pending timer and both history clocks move on; the
\* callbacks that are due run before the clock moves further
Tick ==
    /\ ~Due(dismissTimer)
    /\ \A p \in 1..Len(passes) :
          ~Due(passes[p].scrollTimeout) /\ ~Due(passes[p].restoreTimer)
    /\ passes' = [p \in 1..Len(passes) |->
                     [passes[p] EXCEPT !.scrollTimeout = Elapse(@),
                                       !.restoreTimer = Elapse(@)]]
    /\ dismissTimer' = Elapse(dismissTimer)
    /\ burst' = [burst EXCEPT !.since = Later(@)]
    /\ opening' = [opening EXCEPT !.since = Later(@)]
    /\ <<passes', dismissTimer', burst', opening'>> #
          <<passes, dismissTimer, burst, opening>>
    /\ UNCHANGED <<isEditMode, isDarkMode, edits, currentTabRef, mounted,
                   container, focus, committed, clicks, fault>>
    /\ UNCHANGED <<word, bubbleInst, lookups, definitions, loading, source, env>>
    /\ UNCHANGED <<layout, scrollTop, scrollPosition, clickListener, ctx, selection>>

----------------------------------------------------------------------------
(* PDFViewer: the canvas context of a page and the dark mode drawImage patch *)

\* the filter the patch sets
InvertFilter == "invert(1) hue-rotate(180deg)"

\* the filters page.render sets on the context by itself
RenderFilters == {"none", "url(#f)"}

\* canvas.getContext('2d'), then the patch of drawImage in dark mode
NewContext(dark) ==
    [live |-> TRUE, patched |-> dark, filter |-> "none", stack |-> <<>>,
     drawn |-> <<>>, images |-> 0, ops |-> 0, failed |-> FALSE]

\* no canvas is being rendered
NoContext ==
    [live |-> FALSE, patched |-> FALSE, filter |-> "none", stack |-> <<>>,
     drawn |-> <<>>, images |-> 0, ops |-> 0, failed |-> FALSE]

\* context.save()
CtxSave(c) == [c EXCEPT !.stack = Append(@, c.filter)]

\* context.restore(): nothing happens on an empty stack
CtxRestore(c) ==
    IF c.stack = <<>> THEN c
    ELSE [c EXCEPT !.filter = c.stack[Len(c.stack)],
                   !.stack = SubSeq(c.stack, 1, Len(c.stack) - 1)]

\* the native drawImage (originalDrawImage): it draws through the current
\* filter, or throws and draws nothing
NativeDrawImage(c, throws) ==
    IF throws THEN [c EXCEPT !.failed = TRUE]
    ELSE [c EXCEPT !.drawn = Append(@, c.filter)]

\* the patched drawImage: save, set the filter, the original draw, restore;
\* an exception of the original draw leaves the function before the restore
PatchedDrawImage(c, throws) ==
    LET inverted == [CtxSave(c) EXCEPT !.filter = InvertFilter]
    IN  IF throws THEN NativeDrawImage(inverted, TRUE)
        ELSE CtxRestore(NativeDrawImage(inverted, FALSE))

\* context.drawImage(...) as page.render calls it
DrawImage(c, throws) ==
    LET d == IF c.patched THEN PatchedDrawImage(c, throws)
             ELSE NativeDrawImage(c, throws)
    IN  [d EXCEPT !.images = @ + 1, !.ops = @ + 1]

\* page.render goes on while nothing has thrown
Rendering == ctx.live /\ ~ctx.failed /\ ctx.ops < MaxOps

\* page.render saves the context state
CanvasSave ==
    /\ Rendering
    /\ ctx' = [CtxSave(ctx) EXCEPT !.ops = @ + 1]
    /\ UNCHANGED <<viewerVars, lookupVars>>
    /\ UNCHANGED <<layout, scrollVars, dismissVars, selection>>

\* page.render restores the context state
CanvasRestore ==
    /\ Rendering
    /\ ctx' = [CtxRestore(ctx) EXCEPT !.ops = @ + 1]
    /\ UNCHANGED <<viewerVars, lookupVars>>
    /\ UNCHANGED <<layout, scrollVars, dismissVars, selection>>

\* page.render sets a filter of its own
CanvasSetFilter(f) ==
    /\ Rendering
    /\ ctx' = [ctx EXCEPT !.filter = f, !.ops = @ + 1]
    /\ UNCHANGED <<viewerVars, lookupVars>>
    /\ UNCHANGED <<layout, scrollVars, dismissVars, selection>>

\* page.render draws an image
CanvasDrawImage(throws) ==
    /\ Rendering
    /\ ctx' = DrawImage(ctx, throws)
    /\ UNCHANGED <<viewerVars, lookupVars>>
    /\ UNCHANGED <<layout, scrollVars, dismissVars, selection>>

----------------------------------------------------------------------------
(* PDFViewer: the handlers wired on a span in edit mode *)

Ink(dark) == IF dark THEN "e0e6ed" ELSE "1e293b"

Opaque(dark) == IF dark THEN "000000" ELSE "ffffff"

\* variant of HasText: the test without the trim
HasTextNoTrim(t) == t # <<>>

\* span.textContent && span.textContent.trim() !== ''
HasText(t) == t # <<>> /\ Trim(t) # <<>>

\* the span after its click listener has run
Clicked(f) ==
    [f EXCEPT !.editable = TRUE, !.bg = "tint", !.outline = TRUE,
              !.color = Ink(f.dark), !.atClick = f.text]

\* the click listener: the span enters Editing
SpanClick(n, k) ==
    /\ n \in 1..Len(container)
    /\ k \in 1..Len(container[n].frags)
    /\ container[n].frags[k].wired
    /\ focus = NoFocus
    /\ clicks < MaxClicks
    /\ clicks' = clicks + 1
    /\ container' = [container EXCEPT ![n].frags[k] = Clicked(@)]
    /\ focus' = <<n, k>>
    /\ UNCHANGED <<isEditMode, isDarkMode, edits, currentTabRef, mounted,
                   passes, committed, fault>>
    /\ UNCHANGED lookupVars
    /\ UNCHANGED auxVars

\* the span after its blur listener has run
Blurred(f) ==
    IF HasText(f.text)
    THEN [f EXCEPT !.editable = FALSE, !.outline = FALSE,
                   !.color = Ink(f.dark), !.bg = Opaque(f.dark),
                   !.marker = TRUE, !.atClick = <<>>]
    ELSE [f EXCEPT !.editable = FALSE, !.outline = FALSE,
                   !.color = "transparent", !.bg = "transparent",
                   !.atClick = <<>>]

\* the blur listener, run on a span whose text the user has left as t; a store
\* update re-renders PDFViewer, whose [currentTab] effect refreshes currentTabRef
BlurHandler(t) ==
    LET f == [container[focus[1]].frags[focus[2]] EXCEPT !.text = t]
    IN  /\ container' = [container EXCEPT ![focus[1]].frags[focus[2]] = Blurred(f)]
        /\ focus' = NoFocus
        /\ IF HasText(f.text)
           THEN /\ edits' = saveEdit(edits, f.id, f.text)
                /\ currentTabRef' = saveEdit(edits, f.id, f.text)
                /\ committed' = saveEdit(committed, f.id, f.text)
           ELSE UNCHANGED <<edits, currentTabRef, committed>>
        /\ UNCHANGED <<isEditMode, isDarkMode, mounted, passes, clicks, fault>>
        /\ UNCHANGED lookupVars
        /\ UNCHANGED auxVars

\* what the user can have made of the text of the span being edited
Typed(f) == EditTexts \cup {f.text}

\* focus leaves the span being edited
SpanBlur ==
    /\ focus # NoFocus
    /\ \E t \in Typed(container[focus[1]].frags[focus[2]]) : BlurHandler(t)

\* the keydown listener: Enter calls span.blur()
SpanKeydownEnter ==
    /\ focus # NoFocus
    /\ \E t \in Typed(container[focus[1]].frags[focus[2]]) : BlurHandler(t)

----------------------------------------------------------------------------
(* Specification of the viewer *)

\* Document.edits when the viewer mounts: a fresh tab, or a tab that was edited
\* while it was mounted before
StoredEdits == {<<>>, saveEdit(<<>>, SpanId(1, 0), <<"b">>)}

InitViewer ==
    /\ isEditMode \in BOOLEAN
    /\ isDarkMode = FALSE
    /\ edits \in StoredEdits
    /\ currentTabRef = edits
    /\ mounted = TRUE
    /\ passes = <<NewPass(isEditMode, isDarkMode, edits)>>
    /\ container = <<>>
    /\ focus = NoFocus
    /\ committed = edits
    /\ clicks = 0
    /\ fault \in Faults

InitBubble ==
    /\ word = <<>>
    /\ bubbleInst = 0
    /\ lookups = <<>>
    /\ definitions = <<>>
    /\ loading = TRUE
    /\ source = "null"
    /\ env = "absent"

----------------------------------------------------------------------------
(* DictionaryBubble: normalisation of the term *)

Punctuation == {".", ",", "!", "?", ";", ":", "(", ")", "\""}

\* String.prototype.toLowerCase on one character
LowerChar(c) ==
    CASE c = "A" -> "a"
      [] c = "B" -> "b"
      [] c = "H" -> "h"
      [] OTHER -> c

\* replace(/[.,!?;:()"]/g, '')
StripPunct(s) == SelectSeq(s, LAMBDA c : c \notin Punctuation)

Lower(s) == [k \in 1..Len(s) |-> LowerChar(s[k])]

\* variant of CleanTerm: the trimmed term, not normalised
CleanTermRaw(term) == Trim(term)

\* term.trim().replace(/[.,!?;:()"]/g, '').toLowerCase()
CleanTerm(term) == Lower(StripPunct(Trim(term)))

\* cleanTerm.split(/\s+/).length: one piece more than the runs of whitespace
SplitCount(s) ==
    1 + Cardinality({k \in 1..Len(s) :
                        IsSpace(s[k]) /\ (k = 1 \/ ~IsSpace(s[k - 1]))})

\* variant of Rejected: the check without the count of pieces
RejectedShortOnly(clean) == Len(clean) < 2

\* cleanTerm.length < 2 || cleanTerm.split(/\s+/).length > 3
Rejected(clean) == Len(clean) < 2 \/ SplitCount(clean) > 3

\* the words a selection can hand to the bubble (trimmed, not empty)
Terms ==
    {<<"a">>,
     <<"H", "i", "!">>,
     <<"a", " ", "b", " ", "c", " ", "d">>,
     <<"a", " ", "b", " ", "c", " ", "!">>}

----------------------------------------------------------------------------
(* DictionaryBubble: the remote response *)

Min(a, b) == IF a < b THEN a ELSE b

\* variant of Slice: nothing is cut off
SliceAll(s, n) == s

\* Array.prototype.slice(0, n)
Slice(s, n) == SubSeq(s, 1, Min(n, Len(s)))

\* meaning.definitions?.slice(0, 2), each with a definition text, prefixed with
\* the part of speech (noun when the meaning has none)
MeaningDefs(m) ==
    LET kept == SelectSeq(Slice(m.definitions, 2), LAMBDA d : d # "")
        pos == IF m.partOfSpeech = "" THEN "noun" ELSE m.partOfSpeech
    IN  [k \in 1..Len(kept) |-> <<pos, kept[k]>>]

RECURSIVE EntryDefs(_)
EntryDefs(meanings) ==
    IF meanings = <<>> THEN <<>>
    ELSE MeaningDefs(Head(meanings)) \o EntryDefs(Tail(meanings))

RECURSIVE DataDefs(_)
DataDefs(entries) ==
    IF entries = <<>> THEN <<>>
    ELSE EntryDefs(Head(entries)) \o DataDefs(Tail(entries))

\* the value fetchOnlineDefinition returns for a parsed body
ParseBody(body) ==
    IF body.isArray THEN Slice(DataDefs(body.entries), 3) ELSE <<>>

\* what response.json() can give: a parse error, a non-array, entries
Bodies ==
    {[parses |-> FALSE, isArray |-> FALSE, entries |-> <<>>],
     [parses |-> TRUE, isArray |-> FALSE, entries |-> <<>>],
     [parses |-> TRUE, isArray |-> TRUE, entries |-> <<>>],
     [parses |-> TRUE, isArray |-> TRUE, entries |->
        << <<[partOfSpeech |-> "verb", definitions |-> <<"d1", "d2", "d3">>],
             [partOfSpeech |-> "", definitions |-> <<"", "d4">>]>>,
           <<[partOfSpeech |-> "adj", definitions |-> <<"d5">>]>> >>]}

\* no body: response.json() has not been awaited
NoBody == [parses |-> FALSE, isArray |-> FALSE, entries |-> <<>>]

\* how fetch settles: it rejects, a status that is not ok, ok
FetchOutcomes == {"rejects", "notOk", "ok"}

\* how invoke('search_dictionary') settles: it rejects, or an array of results
LocalOutcomes ==
    {[throws |-> TRUE, results |-> <<>>],
     [throws |-> FALSE, results |-> <<>>],
     [throws |-> FALSE, results |-> <<"l1", "l2">>]}

\* the runtime: no Tauri, Tauri with invoke, Tauri whose core module gives no
\* invoke function, Tauri whose core module fails to load
Envs == {"absent", "present", "noInvoke", "importFails"}

----------------------------------------------------------------------------
(* DictionaryBubble: the lookup effect *)

\* isTauri()
isTauri == env # "absent"

NewLookup(inst, term) ==
    [inst |-> inst, term |-> term, pc |-> "start",
     foundLocal |-> FALSE,
     localCalls |-> 0, localArg |-> <<>>, localThrew |-> FALSE,
     localReturned |-> FALSE, localRes |-> <<>>,
     onlineCalls |-> 0, remoteCalls |-> 0, remoteArg |-> <<>>,
     remoteThrew |-> FALSE, body |-> NoBody,
     outDefs |-> <<>>, outSource |-> "null"]

\* the state setters of a lookup reach the bubble instance that started it,
\* while that instance is mounted
Reaches(l) == word # <<>> /\ lookups[l].inst = bubbleInst

\* results && results.length > 0
LocalHit(results) == Len(results) > 0

\* variant of FoundLocalFlag: the flag is never set
FoundLocalUnset(results) == FALSE

\* foundLocal = true, inside the branch of a local hit
FoundLocalFlag(results) == LocalHit(results)

\* variant of FallBack: no fallback when the local source exists
FallBackOnlyAbsent(found) == ~found /\ ~isTauri

\* if (!foundLocal): the online fallback is taken
FallBack(found) == ~found

\* variant of Finish: the loading state is left as it is
FinishKeepLoading(l, ls, defs, src) ==
    /\ lookups' = [ls EXCEPT ![l].pc = "done"]
    /\ loading' = loading
    /\ definitions' = IF Reaches(l) THEN defs ELSE definitions
    /\ source' = IF Reaches(l) THEN src ELSE source

\* the end of fetchDefinition: setLoading(false)
Finish(l, ls, defs, src) ==
    /\ lookups' = [ls EXCEPT ![l].pc = "done"]
    /\ loading' = IF Reaches(l) THEN FALSE ELSE loading
    /\ definitions' = IF Reaches(l) THEN defs ELSE definitions
    /\ source' = IF Reaches(l) THEN src ELSE source

\* the online results are in: setDefinitions and setSource when there are any
OnlineResults(l, ls, res) ==
    IF Len(res) > 0
    THEN Finish(l, [ls EXCEPT ![l].outDefs = res, ![l].outSource = "online"],
                res, "online")
    ELSE Finish(l, ls, definitions, source)

\* the local stage is over: the fallback, up to the first await of
\* fetchOnlineDefinition (the rejection check, then the call of fetch)
AfterLocal(l, ls) ==
    IF ~FallBack(ls[l].foundLocal)
    THEN Finish(l, ls, definitions, source)
    ELSE LET clean == CleanTerm(ls[l].term)
             called == [ls EXCEPT ![l].onlineCalls = @ + 1]
         IN  IF Rejected(clean)
             THEN OnlineResults(l, called, <<>>)
             ELSE /\ lookups' = [called EXCEPT ![l].pc = "fetch",
                                               ![l].remoteCalls = @ + 1,
                                               ![l].remoteArg = clean]
                  /\ UNCHANGED <<definitions, loading, source>>

\* fetchDefinition up to its first await
StartLookup(inst, term) ==
    LET l == Len(lookups) + 1
        ls == Append(lookups, NewLookup(inst, term))
    IN  IF isTauri
        THEN /\ lookups' = [ls EXCEPT ![l].pc = "import"]
             /\ definitions' = <<>>
             /\ loading' = TRUE
             /\ source' = "null"
        ELSE LET clean == CleanTerm(term)
                 called == [ls EXCEPT ![l].onlineCalls = @ + 1]
             IN  IF Rejected(clean)
                 THEN /\ lookups' = [called EXCEPT ![l].pc = "done"]
                      /\ definitions' = <<>>
                      /\ loading' = FALSE
                      /\ source' = "null"
                 ELSE /\ lookups' = [called EXCEPT ![l].pc = "fetch",
                                                   ![l].remoteCalls = @ + 1,
                                                   ![l].remoteArg = clean]
                      /\ definitions' = <<>>
                      /\ loading' = TRUE
                      /\ source' = "null"

\* variant of BubbleMounted: the bubble is mounted in either mode
BubbleMountedAnyMode(editMode, sel) == sel # <<>>

\* {!isEditMode && selection && <DictionaryBubble ... />}
BubbleMounted(editMode, sel) == ~editMode /\ sel # <<>>

\* App.handleSelection, the bubble mount and the [word] effect
Select(w) ==
    /\ ~isEditMode
    /\ w # word
    /\ Len(lookups) < MaxLookups
    /\ selection' = w
    /\ word' = w
    /\ bubbleInst' = IF word = <<>> THEN bubbleInst + 1 ELSE bubbleInst
    /\ StartLookup(bubbleInst', w)
    /\ clickListener' = FALSE
    /\ dismissTimer' = DismissTimeout
    /\ opening' = IF word = <<>> THEN NoOpening ELSE opening
    /\ UNCHANGED env
    /\ UNCHANGED viewerVars
    /\ UNCHANGED <<layout, scrollVars, ctx>>

\* onClose: setSelection(null), the bubble unmounts
Close ==
    /\ word # <<>>
    /\ HideBubble
    /\ UNCHANGED viewerVars
    /\ UNCHANGED <<layout, scrollVars, ctx>>

\* a mousedown outside the bubble: handleClickOutside closes the bubble if it
\* is registered; otherwise nothing of the bubble hears the event
MouseDownOutside ==
    /\ word # <<>>
    /\ IF clickListener
       THEN HideBubble
       ELSE /\ opening' = [opening EXCEPT !.ignored = TRUE]
            /\ UNCHANGED <<lookupVars, clickListener, dismissTimer, selection>>
    /\ UNCHANGED viewerVars
    /\ UNCHANGED <<layout, scrollVars, ctx>>

\* App renders again with the bubble open (a store or state change): the
\* inline onClose is a new function, so the dismissal effect is cleaned up
\* and runs again
AppRender ==
    /\ word # <<>>
    /\ clickListener' = FALSE
    /\ dismissTimer' = DismissTimeout
    /\ UNCHANGED opening
    /\ UNCHANGED viewerVars
    /\ UNCHANGED lookupVars
    /\ UNCHANGED <<layout, scrollVars, ctx, selection>>

\* the callback of the dismissal timer: addEventListener('mousedown', ...)
DismissTimerFire ==
    /\ Due(dismissTimer)
    /\ clickListener' = TRUE
    /\ dismissTimer' = <<>>
    /\ UNCHANGED opening
    /\ UNCHANGED viewerVars
    /\ UNCHANGED lookupVars
    /\ UNCHANGED <<layout, scrollVars, ctx, selection>>

\* toggleEditMode of the store; isEditMode is a dependency of the effect
\* (limit caps the runs of the effect); App mounts the bubble only outside
\* the edit mode, so a stored selection loses its bubble when the mode is
\* switched on and gets a new one, with a new lookup, when it is switched off
ToggleEditModeUpTo(limit) ==
    /\ mounted
    /\ focus = NoFocus
    /\ Len(passes) < limit
    /\ isEditMode' = ~isEditMode
    /\ Rerun(~isEditMode, isDarkMode)
    /\ IF BubbleMounted(isEditMode, selection) /\ ~BubbleMounted(~isEditMode, selection)
       THEN /\ word' = <<>>
            /\ definitions' = <<>>
            /\ loading' = TRUE
            /\ source' = "null"
            /\ clickListener' = FALSE
            /\ dismissTimer' = <<>>
            /\ UNCHANGED <<bubbleInst, lookups, env, opening>>
       ELSE IF ~BubbleMounted(isEditMode, selection) /\ BubbleMounted(~isEditMode, selection)
       THEN /\ word' = selection
            /\ bubbleInst' = bubbleInst + 1
            /\ StartLookup(bubbleInst', selection)
            /\ clickListener' = FALSE
            /\ dismissTimer' = DismissTimeout
            /\ opening' = NoOpening
            /\ UNCHANGED env
       ELSE /\ clickListener' = IF word # <<>> THEN FALSE ELSE clickListener
            /\ dismissTimer' = IF word # <<>> THEN DismissTimeout ELSE dismissTimer
            /\ UNCHANGED <<lookupVars, opening>>
    /\ UNCHANGED <<isDarkMode, edits, currentTabRef, mounted, container, focus,
                   committed, clicks, fault>>
    /\ UNCHANGED <<layout, scrollVars, ctx, selection>>

ToggleEditMode == ToggleEditModeUpTo(MaxPasses)

\* await import('@tauri-apps/api/core'), then the call of invoke
ImportDone(l) ==
    /\ lookups[l].pc = "import"
    /\ IF env = "present"
       THEN /\ lookups' = [lookups EXCEPT ![l].pc = "invoke",
                                          ![l].localCalls = @ + 1,
                                          ![l].localArg = Trim(lookups[l].term)]
            /\ UNCHANGED <<definitions, loading, source>>
       ELSE AfterLocal(l, [lookups EXCEPT ![l].localThrew = (env = "importFails")])
    /\ UNCHANGED <<word, bubbleInst, env>>
    /\ UNCHANGED viewerVars
    /\ UNCHANGED auxVars

\* await invoke('search_dictionary', { word: word.trim() })
InvokeDone(l, r) ==
    /\ lookups[l].pc = "invoke"
    /\ IF r.throws
       THEN AfterLocal(l, [lookups EXCEPT ![l].localThrew = TRUE])
       ELSE IF LocalHit(r.results)
       THEN LET ls == [lookups EXCEPT ![l].localReturned = TRUE,
                                      ![l].localRes = r.results,
                                      ![l].outDefs = r.results,
                                      ![l].outSource = "local",
                                      ![l].foundLocal = FoundLocalFlag(r.results)]
            IN  IF ~FallBack(ls[l].foundLocal)
                THEN Finish(l, ls, r.results, "local")
                ELSE /\ AfterLocal(l, ls)
       ELSE AfterLocal(l, [lookups EXCEPT ![l].localReturned = TRUE])
    /\ UNCHANGED <<word, bubbleInst, env>>
    /\ UNCHANGED viewerVars
    /\ UNCHANGED auxVars

\* await fetch(...)
FetchDone(l, outcome) ==
    /\ lookups[l].pc = "fetch"
    /\ IF outcome = "ok"
       THEN /\ lookups' = [lookups EXCEPT ![l].pc = "json"]
            /\ UNCHANGED <<definitions, loading, source>>
       ELSE OnlineResults(l, [lookups EXCEPT ![l].remoteThrew = (outcome = "rejects")],
                          <<>>)
    /\ UNCHANGED <<word, bubbleInst, env>>
    /\ UNCHANGED viewerVars
    /\ UNCHANGED auxVars

\* await response.json(), then the parse
JsonDone(l, body) ==
    /\ lookups[l].pc = "json"
    /\ IF body.parses
       THEN OnlineResults(l, [lookups EXCEPT ![l].body = body], ParseBody(body))
       ELSE OnlineResults(l, [lookups EXCEPT ![l].remoteThrew = TRUE], <<>>)
    /\ UNCHANGED <<word, bubbleInst, env>>
    /\ UNCHANGED viewerVars
    /\ UNCHANGED auxVars

----------------------------------------------------------------------------
(* Specifications *)

\* nothing scrolled, no bubble, no canvas in use, one span per text item
InitAux ==
    /\ layout \in Layouts
    /\ scrollTop = 0
    /\ scrollPosition = <<>>
    /\ burst = NoBurst
    /\ clickListener = FALSE
    /\ dismissTimer = <<>>
    /\ opening = NoOpening
    /\ ctx = NoContext
    /\ selection = <<>>

Init == InitViewer /\ InitBubble /\ InitAux /\ layout = "perItem"

\* page.render at work on the canvas of page 1, in either tone
InitCanvas ==
    /\ isEditMode = FALSE
    /\ isDarkMode \in BOOLEAN
    /\ edits = <<>>
    /\ currentTabRef = edits
    /\ mounted = TRUE
    /\ passes = <<[NewPass(isEditMode, isDarkMode, edits) EXCEPT !.pc = "render", !.i = 1]>>
    /\ container = <<NewNode(1, 1)>>
    /\ focus = NoFocus
    /\ committed = edits
    /\ clicks = 0
    /\ fault = NoFault
    /\ InitBubble
    /\ layout = "perItem"
    /\ scrollTop = 0
    /\ scrollPosition = <<>>
    /\ burst = NoBurst
    /\ clickListener = FALSE
    /\ dismissTimer = <<>>
    /\ opening = NoOpening
    /\ ctx = NewContext(isDarkMode)
    /\ selection = <<>>

NextCanvas ==
    \/ CanvasSave
    \/ CanvasRestore
    \/ \E f \in RenderFilters : CanvasSetFilter(f)
    \/ \E throws \in BOOLEAN : CanvasDrawImage(throws)

SpecCanvas == InitCanvas /\ [][NextCanvas]_vars

Next ==
    \/ \E p \in 1..Len(passes) : GetDocumentDone(p)
    \/ \E p \in 1..Len(passes) : GetPageDone(p)
    \/ \E p \in 1..Len(passes) : RenderDone(p)
    \/ \E p \in 1..Len(passes) : TextLayerDone(p)
    \/ ToggleEditMode
    \/ ToggleDarkMode
    \/ Unmount
    \/ \E n \in 1..Len(container) : \E k \in 1..SpanCount(1) : SpanClick(n, k)
    \/ SpanBlur
    \/ SpanKeydownEnter

Spec == Init /\ [][Next]_vars

\* the lookup bubble over a viewer that is left alone
InitLookup ==
    /\ InitViewer
    /\ fault = NoFault
    /\ edits = <<>>
    /\ word = <<>>
    /\ bubbleInst = 0
    /\ lookups = <<>>
    /\ definitions = <<>>
    /\ loading = TRUE
    /\ source = "null"
    /\ env \in Envs
    /\ InitAux
    /\ layout = "perItem"

NextLookup ==
    \/ \E w \in Terms : Select(w)
    \/ Close
    \/ \E l \in 1..Len(lookups) : ImportDone(l)
    \/ \E l \in 1..Len(lookups) : \E r \in LocalOutcomes : InvokeDone(l, r)
    \/ \E l \in 1..Len(lookups) : \E o \in FetchOutcomes : FetchDone(l, o)
    \/ \E l \in 1..Len(lookups) : \E b \in Bodies : JsonDone(l, b)

SpecLookup == InitLookup /\ [][NextLookup]_vars

\* a tab with or without a saved scroll position is shown in reading mode
InitScroll ==
    /\ isEditMode = FALSE
    /\ isDarkMode = FALSE
    /\ edits = <<>>
    /\ currentTabRef = edits
    /\ mounted = TRUE
    /\ scrollPosition \in {<<>>, <<2>>}
    /\ passes = <<[NewPass(isEditMode, isDarkMode, edits)
                      EXCEPT !.savedAtStart = scrollPosition]>>
    /\ container = <<>>
    /\ focus = NoFocus
    /\ committed = edits
    /\ clicks = 0
    /\ fault = NoFault
    /\ InitBubble
    /\ layout = "perItem"
    /\ scrollTop = 0
    /\ burst = NoBurst
    /\ clickListener = FALSE
    /\ dismissTimer = <<>>
    /\ opening = NoOpening
    /\ ctx = NoContext
    /\ selection = <<>>

\* the viewer with its scroll listeners, its timers and the clock
NextScroll ==
    \/ \E p \in 1..Len(passes) : GetDocumentDone(p)
    \/ \E p \in 1..Len(passes) : GetPageDone(p)
    \/ \E p \in 1..Len(passes) : RenderDone(p)
    \/ \E p \in 1..Len(passes) : TextLayerDone(p)
    \/ ToggleDarkMode
    \/ Unmount
    \/ \E y \in ScrollOffsets : Scroll(y)
    \/ \E p \in 1..Len(passes) : ScrollTimerFire(p)
    \/ \E p \in 1..Len(passes) : RestoreTimerFire(p)
    \/ Tick

SpecScroll == InitScroll /\ [][NextScroll]_vars

\* the bubble and the edit mode toggle
NextEdit ==
    \/ \E w \in Terms : Select(w)
    \/ Close
    \/ ToggleEditModeUpTo(MaxModePasses)
    \/ \E l \in 1..Len(lookups) : ImportDone(l)
    \/ \E l \in 1..Len(lookups) : \E r \in LocalOutcomes : InvokeDone(l, r)
    \/ \E l \in 1..Len(lookups) : \E o \in FetchOutcomes : FetchDone(l, o)
    \/ \E l \in 1..Len(lookups) : \E b \in Bodies : JsonDone(l, b)

SpecEdit == InitLookup /\ [][NextEdit]_vars

\* the bubble with its dismissal effect and the clock
NextDismiss ==
    \/ \E w \in Terms : Select(w)
    \/ Close
    \/ MouseDownOutside
    \/ AppRender
    \/ DismissTimerFire
    \/ Tick

SpecDismiss == InitLookup /\ [][NextDismiss]_vars

\* the viewer in read-only mode on a sound document, the tone toggled
InitTone ==
    /\ Init
    /\ ~isEditMode
    /\ edits = <<>>
    /\ fault = NoFault

NextTone ==
    \/ \E p \in 1..Len(passes) : GetDocumentDone(p)
    \/ \E p \in 1..Len(passes) : GetPageDone(p)
    \/ \E p \in 1..Len(passes) : RenderDone(p)
    \/ \E p \in 1..Len(passes) : TextLayerDone(p)
    \/ ToggleDarkModeUpTo(MaxTonePasses)
    \/ Unmount

SpecTone == InitTone /\ [][NextTone]_vars

\* the viewer on a sound document, whatever spans the text layer builds
InitLayout ==
    /\ InitViewer
    /\ InitBubble
    /\ InitAux
    /\ fault = NoFault

SpecLayout == InitLayout /\ [][Next]_vars

----------------------------------------------------------------------------
(* Claims about the lookup resolver *)

\* C1: in every lookup in which the local source returned a non-empty result
\* set, that set is the lookup's result, tagged local, and the remote source
\* is never invoked by that lookup.
C1_LocalHitNoRemote ==
    \A l \in 1..Len(lookups) :
        Len(lookups[l].localRes) > 0 =>
            /\ lookups[l].remoteCalls = 0
            /\ lookups[l].onlineCalls = 0
            /\ lookups[l].outSource = "local"
            /\ lookups[l].outDefs = lookups[l].localRes

C1_Witness ==
    \E l \in 1..Len(lookups) :
        /\ lookups[l].pc = "done"
        /\ Len(lookups[l].localRes) > 0
        /\ lookups[l].outSource = "local"
        /\ Reaches(l) /\ source = "local" /\ ~loading

\* the local source was unavailable, or its query raised an error, or it
\* returned nothing
LocalGaveNothing(l) ==
    \/ env # "present"
    \/ lookups[l].localThrew
    \/ lookups[l].localReturned /\ lookups[l].localRes = <<>>

\* C2 (as claimed): a finished lookup whose local source was unavailable,
\* failed or returned nothing has invoked the remote source exactly once.
C2_RemoteExactlyOnce ==
    \A l \in 1..Len(lookups) :
        (lookups[l].pc = "done" /\ LocalGaveNothing(l)) =>
            lookups[l].remoteCalls = 1

\* C2 (amended): such a lookup has called fetchOnlineDefinition exactly once,
\* and has sent exactly one remote request when the normalised term has at
\* least 2 characters and at most 3 whitespace-delimited pieces, and none
\* otherwise; no lookup ever sends more than one request.
C2_RemoteOnceUnlessRejected ==
    \A l \in 1..Len(lookups) :
        /\ lookups[l].remoteCalls <= 1
        /\ (lookups[l].pc = "done" /\ LocalGaveNothing(l)) =>
              /\ lookups[l].onlineCalls = 1
              /\ lookups[l].remoteCalls =
                    IF Len(CleanTerm(lookups[l].term)) >= 2
                       /\ SplitCount(CleanTerm(lookups[l].term)) <= 3
                    THEN 1 ELSE 0

C2_Witness ==
    \E l \in 1..Len(lookups) :
        /\ lookups[l].pc = "done"
        /\ lookups[l].localReturned /\ lookups[l].localRes = <<>>
        /\ lookups[l].remoteCalls = 1
        /\ lookups[l].outSource = "online"

\* the whitespace-delimited tokens of a string: its runs of other characters
TokenCount(s) ==
    Cardinality({k \in 1..Len(s) : ~IsSpace(s[k]) /\ (k = 1 \/ IsSpace(s[k - 1]))})

\* the reference normalisation: trim, strip the punctuation set, lowercase
Normalized(term) ==
    LET t == Trim(term)
        kept == SelectSeq(t, LAMBDA c : c \notin Punctuation)
    IN  [k \in 1..Len(kept) |-> LowerChar(kept[k])]

\* the rejection rule of the protocol's first step
TooShortOrLong(term) ==
    Len(Normalized(term)) < 2 \/ TokenCount(Normalized(term)) > 3

\* C11 (as claimed): a lookup of a term that the first step rejects queries
\* neither the local source nor the remote source, and its result is empty.
C11_RejectedQueriesNothing ==
    \A l \in 1..Len(lookups) :
        TooShortOrLong(lookups[l].term) =>
            /\ lookups[l].localCalls = 0
            /\ lookups[l].remoteCalls = 0
            /\ lookups[l].outDefs = <<>>

\* C12: a lookup of a phrase of 4 or more tokens, or of a term whose normalised
\* form has fewer than 2 characters, never sends a remote request.
C12_RejectedNoRequest ==
    \A l \in 1..Len(lookups) :
        (\/ TokenCount(Normalized(lookups[l].term)) >= 4
         \/ Len(Normalized(lookups[l].term)) < 2) =>
            /\ lookups[l].remoteCalls = 0
            /\ lookups[l].pc \notin {"fetch", "json"}
            /\ lookups[l].outSource # "online"

\* a 4-token phrase went through fetchOnlineDefinition without a request
C12_Witness ==
    \E l \in 1..Len(lookups) :
        /\ lookups[l].pc = "done"
        /\ TokenCount(Normalized(lookups[l].term)) = 4
        /\ lookups[l].onlineCalls = 1
        /\ lookups[l].remoteCalls = 0

\* C13 (as claimed): in every lookup that enters the remote stage the term is
\* rejected exactly when its normalised form has fewer than 2 characters or
\* more than 3 whitespace-delimited tokens, and a request that is sent carries
\* the reference normalisation of the term.
C13_RejectedIffTooShortOrLong ==
    \A l \in 1..Len(lookups) :
        lookups[l].onlineCalls = 1 =>
            /\ (lookups[l].remoteCalls = 0) <=> TooShortOrLong(lookups[l].term)
            /\ lookups[l].remoteCalls = 1 =>
                  lookups[l].remoteArg = Normalized(lookups[l].term)

\* C14: the local source is queried with the trimmed term as it was selected,
\* the remote source with the normalised term.
C14_LocalOriginalRemoteNormalized ==
    \A l \in 1..Len(lookups) :
        /\ lookups[l].localCalls > 0 => lookups[l].localArg = Trim(lookups[l].term)
        /\ lookups[l].remoteCalls > 0 =>
              lookups[l].remoteArg = Normalized(lookups[l].term)

\* "Hi!" went to the local source as it is and to the remote source as "hi"
C14_Witness ==
    \E l \in 1..Len(lookups) :
        /\ lookups[l].term = <<"H", "i", "!">>
        /\ lookups[l].localCalls = 1
        /\ lookups[l].localArg = <<"H", "i", "!">>
        /\ lookups[l].remoteCalls = 1
        /\ lookups[l].remoteArg = <<"h", "i">>

\* the definitions of a response body, as <<entry, meaning, definition>> indices
Slots(body) ==
    {t \in (1..Len(body.entries)) \X (1..2) \X (1..3) :
        /\ t[2] <= Len(body.entries[t[1]])
        /\ t[3] <= Len(body.entries[t[1]][t[2]].definitions)}

\* the definition of a body with a given text (the texts of a body differ)
SlotOf(body, text) ==
    CHOOSE t \in Slots(body) :
        body.entries[t[1]][t[2]].definitions[t[3]] = text

\* response order
Before(t, u) ==
    \/ t[1] < u[1]
    \/ t[1] = u[1] /\ t[2] < u[2]
    \/ t[1] = u[1] /\ t[2] = u[2] /\ t[3] < u[3]

\* the result of a lookup holds definitions of the body, in response order,
\* at most 3 of them and at most 2 of one meaning
CappedInOrder(body, defs) ==
    /\ Len(defs) <= 3
    /\ \A k \in 1..Len(defs) :
          /\ defs[k][2] # ""
          /\ \E t \in Slots(body) :
                body.entries[t[1]][t[2]].definitions[t[3]] = defs[k][2]
    /\ \A j, k \in 1..Len(defs) :
          j < k => Before(SlotOf(body, defs[j][2]), SlotOf(body, defs[k][2]))
    /\ \A t \in Slots(body) :
          Cardinality({k \in 1..Len(defs) :
                          /\ SlotOf(body, defs[k][2])[1] = t[1]
                          /\ SlotOf(body, defs[k][2])[2] = t[2]}) <= 2

\* the part of speech of the meaning a definition text belongs to
PartOfSpeechOf(body, text) ==
    body.entries[SlotOf(body, text)[1]][SlotOf(body, text)[2]].partOfSpeech

\* C15 (as claimed): the result of a remote response holds at most 2
\* definitions of any one meaning and at most 3 in all, in response order,
\* each prefixed with the part of speech of its meaning, and is tagged online.
C15_PrefixedWithOwnPartOfSpeech ==
    \A l \in 1..Len(lookups) :
        (lookups[l].body # NoBody /\ lookups[l].outDefs # <<>>) =>
            /\ CappedInOrder(lookups[l].body, lookups[l].outDefs)
            /\ lookups[l].outSource = "online"
            /\ \A k \in 1..Len(lookups[l].outDefs) :
                  lookups[l].outDefs[k][1] =
                     PartOfSpeechOf(lookups[l].body, lookups[l].outDefs[k][2])

\* C15 (amended): the same, each definition prefixed with the part of speech
\* of its meaning, or with noun when the meaning names none.
C15_CappedOrderedPrefixed ==
    \A l \in 1..Len(lookups) :
        (lookups[l].body # NoBody /\ lookups[l].outDefs # <<>>) =>
            /\ CappedInOrder(lookups[l].body, lookups[l].outDefs)
            /\ lookups[l].outSource = "online"
            /\ \A k \in 1..Len(lookups[l].outDefs) :
                  LET pos == PartOfSpeechOf(lookups[l].body,
                                            lookups[l].outDefs[k][2])
                  IN  lookups[l].outDefs[k][1] =
                         IF pos = "" THEN "noun" ELSE pos

\* a response of 3 meanings with 6 definitions gave 3 definitions, 2 of the
\* first meaning, shown by the bubble as online
C15_Witness ==
    \E l \in 1..Len(lookups) :
        /\ lookups[l].pc = "done"
        /\ Len(DataDefs(lookups[l].body.entries)) > 3
        /\ lookups[l].outDefs = <<<<"verb", "d1">>, <<"verb", "d2">>, <<"noun", "d4">>>>
        /\ Reaches(l) /\ source = "online" /\ definitions = lookups[l].outDefs

\* C16: a lookup that ends has swallowed every failure of its stages: a failed
\* local stage gave nothing and the remote stage was entered, a failed remote
\* stage gave nothing, the result is populated with its source or empty with
\* none, and the loading state of the bubble that started it is cleared.
C16_FailuresSwallowed ==
    [][\A l \in 1..Len(lookups') :
          ((l > Len(lookups) \/ lookups[l].pc # "done")
              /\ lookups'[l].pc = "done") =>
             /\ (word' # <<>> /\ lookups'[l].inst = bubbleInst') =>
                   /\ ~loading'
                   /\ lookups'[l].outDefs # <<>> =>
                         /\ definitions' = lookups'[l].outDefs
                         /\ source' = lookups'[l].outSource
             /\ (lookups'[l].outDefs = <<>>) <=> (lookups'[l].outSource = "null")
             /\ lookups'[l].localThrew =>
                   /\ lookups'[l].localRes = <<>>
                   /\ lookups'[l].onlineCalls = 1
             /\ lookups'[l].remoteThrew => lookups'[l].outDefs = <<>>]_vars

\* both stages failed: the bubble shows an empty result and is not loading
C16_Witness ==
    \E l \in 1..Len(lookups) :
        /\ lookups[l].pc = "done"
        /\ lookups[l].localThrew
        /\ lookups[l].remoteThrew
        /\ lookups[l].outDefs = <<>>
        /\ Reaches(l) /\ ~loading /\ definitions = <<>> /\ source = "null"

\* C28 (as claimed): the definitions and the source the bubble shows are
\* those of a lookup of the word it shows, started by this bubble.
C28_ShownFromCurrentWord ==
    (word # <<>> /\ definitions # <<>>) =>
        \E l \in 1..Len(lookups) :
            /\ lookups[l].term = word
            /\ lookups[l].inst = bubbleInst
            /\ lookups[l].outDefs = definitions
            /\ lookups[l].outSource = source

----------------------------------------------------------------------------
(* Claims about the viewer *)

\* every span in the DOM, as <<page container, span>>
Spans ==
    {nk \in (1..Len(container)) \X (1..SpanCount(1)) :
        nk[2] <= Len(container[nk[1]].frags)}

\* a step in which the blur listener of the focused span runs
BlurStep ==
    /\ focus # NoFocus
    /\ focus' = NoFocus
    /\ Len(container') = Len(container)

\* the focused span before the step, and the same span after it
SpanBefore == container[focus[1]].frags[focus[2]]

SpanAfter == container'[focus[1]].frags[focus[2]]

\* a step in which the text layer of page container n is built
BuildStep(n) ==
    /\ n <= Len(container')
    /\ container[n].frags = <<>>
    /\ container'[n].frags # <<>>

\* C3: whenever the text layer of a page is built, each of its fragments that
\* has a committed edit T shows T with the edit marker, with no user action.
C3_RoundTrip ==
    [][\A n \in 1..Len(container) :
          BuildStep(n) =>
             \A k \in 1..Len(container'[n].frags) :
                LET f == container'[n].frags[k]
                IN  f.id \in DOMAIN committed =>
                       /\ f.text = committed[f.id]
                       /\ f.marker
                       /\ ~f.editable]_vars

\* a fragment of page 2, edited and committed in this run, is shown restored
\* by a later pass
C3_Witness ==
    \E nk \in Spans :
        LET f == container[nk[1]].frags[nk[2]]
        IN  /\ f.id = SpanId(2, 0)
            /\ f.restored
            /\ f.text = <<"b">>
            /\ f.marker
            /\ container[nk[1]].pass = 2
            /\ clicks = 1

\* C4 (as claimed): deactivating with empty text a fragment that has a
\* persisted edit removes its entry from Document.edits and clears its marker.
C4_RevertClears ==
    [][(BlurStep /\ SpanAfter.text = <<>> /\ SpanBefore.id \in DOMAIN edits) =>
          /\ SpanBefore.id \notin DOMAIN edits'
          /\ ~SpanAfter.marker]_vars

\* C5 (as claimed): no page of a torn-down pass is appended to the container
\* after the teardown.
C5_NoAppendAfterTeardown ==
    \A n \in 1..Len(container) : ~container[n].afterTeardown

\* C6 (as claimed): when page k cannot be fetched or rasterised, every page
\* after k is still rendered by the pass.
C6_LaterPagesRendered ==
    \A p \in 1..Len(passes) :
        (/\ passes[p].pc = "done"
         /\ passes[p].active
         /\ mounted
         /\ fault.stage \in {"getPage", "render"}) =>
            \A j \in (fault.page + 1)..NumPages :
                \E n \in 1..Len(container) :
                    /\ container[n].pass = p
                    /\ container[n].page = j
                    /\ container[n].raster

\* the passes with a page render in flight
InFlight == {p \in 1..Len(passes) : passes[p].pc \in {"getPage", "render", "textLayer"}}

\* C7 (as claimed): at most one page render is in flight at any moment, and
\* pages are committed in strictly increasing page order.
C7_SingleFlow ==
    /\ Cardinality(InFlight) <= 1
    /\ \A n, m \in 1..Len(container) :
          n < m => container[n].page < container[m].page

\* C8 (as claimed): no fragment is in Editing while the document is not in
\* edit mode.
C8_EditingOnlyInEditMode ==
    \A nk \in Spans :
        container[nk[1]].frags[nk[2]].editable => isEditMode

\* C9 (as claimed): on deactivation an edit {fragmentId: text} is persisted
\* if and only if the resulting text is non-empty; with empty text the
\* fragment becomes transparent and nothing is persisted.
C9_PersistIffNonEmpty ==
    [][BlurStep =>
          /\ (SpanAfter.text # <<>>) <=>
                (/\ SpanBefore.id \in DOMAIN edits'
                 /\ edits'[SpanBefore.id] = SpanAfter.text)
          /\ SpanAfter.text = <<>> =>
                (edits' = edits /\ SpanAfter.color = "transparent")]_vars

\* C9 (amended): on deactivation the edit is persisted if and only if the
\* resulting text has a character that is not whitespace; otherwise the
\* fragment becomes transparent and Document.edits is left as it was.
C9_PersistIffNotBlank ==
    [][BlurStep =>
          IF \E k \in 1..Len(SpanAfter.text) : ~IsSpace(SpanAfter.text[k])
          THEN /\ DOMAIN edits' = DOMAIN edits \cup {SpanBefore.id}
               /\ edits'[SpanBefore.id] = SpanAfter.text
               /\ \A id \in DOMAIN edits :
                     id # SpanBefore.id => edits'[id] = edits[id]
               /\ SpanAfter.marker
          ELSE /\ edits' = edits
               /\ SpanAfter.color = "transparent"
               /\ SpanAfter.bg = "transparent"]_vars

\* a fragment left with whitespace only: transparent, nothing persisted for it
C9_Witness ==
    \E nk \in Spans :
        LET f == container[nk[1]].frags[nk[2]]
        IN  /\ f.text = <<" ">>
            /\ f.color = "transparent"
            /\ ~f.editable
            /\ f.id \notin DOMAIN edits

\* C10 (as claimed): deactivating a fragment whose text is what it showed
\* when it entered Editing leaves Document.edits unchanged.
C10_UnchangedTextNoop ==
    [][(BlurStep /\ SpanAfter.text = SpanBefore.atClick) => edits' = edits]_vars

\* C17: a page container has fragments, restored or not, only when the raster
\* render of its page has completed.
C17_TextLayerAfterRaster ==
    \A n \in 1..Len(container) :
        (container[n].frags # <<>> \/ container[n].log # <<>>
            \/ container[n].resetViewport # NoViewport) =>
              container[n].raster

\* a rastered page shows a restored fragment
C17_Witness ==
    \E nk \in Spans :
        /\ container[nk[1]].raster
        /\ container[nk[1]].frags[nk[2]].restored
        /\ container[nk[1]].frags[nk[2]].text = <<"b">>

\* the position of a step in the log of a page container
StepAt(n, op, idx) ==
    {i \in 1..Len(container[n].log) :
        container[n].log[i] = [op |-> op, idx |-> idx]}

\* C18 (as claimed): on a page, every restore step runs before any font
\* loading and before any wiring of listeners on that page.
C18_RestoreBeforeAllWiring ==
    \A n \in 1..Len(container) :
        \A i, j \in 1..Len(container[n].log) :
            (/\ container[n].log[i].op = "restore"
             /\ container[n].log[j].op \in {"font", "wire"}) => i < j

\* C18 (amended): every fragment of a built page has exactly one restore step,
\* which runs before the font loading and the wiring of that fragment, and a
\* fragment just restored shows the persisted text with the marker.
C18_RestoreBeforeOwnWiring ==
    /\ \A n \in 1..Len(container) :
          container[n].frags # <<>> =>
             \A k \in 1..Len(container[n].frags) :
                /\ Cardinality(StepAt(n, "restore", k - 1)) = 1
                /\ \A i \in StepAt(n, "restore", k - 1) :
                      \A j \in StepAt(n, "font", k - 1) \cup StepAt(n, "wire", k - 1) :
                         i < j
    /\ \A nk \in Spans :
          LET f == container[nk[1]].frags[nk[2]]
          IN  (f.restored /\ f.atClick = <<>> /\ ~f.editable /\ f.color = "css") =>
                 (f.marker /\ f.text # <<>>)

\* page 1, with two fragments, is rendered again and its first fragment is
\* restored
C18_Witness ==
    \E n \in 1..Len(container) :
        /\ container[n].pass = 2
        /\ container[n].page = 1
        /\ Len(container[n].frags) = 2
        /\ Len(container[n].log) = 6
        /\ container[n].frags[1].restored

\* C19: two fragments in the viewer have the same FragmentId exactly when they
\* are the same fragment of the document (same page, same ordinal), whichever
\* render produced them.
C19_FragmentIdDeterministic ==
    \A nk, mj \in Spans :
        (container[nk[1]].frags[nk[2]].id = container[mj[1]].frags[mj[2]].id)
            <=> (container[nk[1]].page = container[mj[1]].page /\ nk[2] = mj[2])

\* two renders of page 1, with two fragments each, are in the viewer
C19_Witness ==
    \E n, m \in 1..Len(container) :
        /\ container[n].pass # container[m].pass
        /\ container[n].page = 1
        /\ container[m].page = 1
        /\ Len(container[n].frags) = 2
        /\ Len(container[m].frags) = 2
        /\ container[n].frags[2].id = <<"p", "1", "-", "s", "1">>

\* C20: for every page of a pass one viewport is computed, and the raster
\* render, the text layer and the reset of the dimensions use that very object.
C20_OneViewport ==
    \A n \in 1..Len(container) :
        /\ container[n].viewport.page = container[n].page
        /\ container[n].rasterViewport = container[n].viewport
        /\ container[n].textViewport \in {NoViewport, container[n].viewport}
        /\ container[n].resetViewport \in {NoViewport, container[n].viewport}
        /\ container[n].frags # <<>> =>
              /\ container[n].textViewport = container[n].viewport
              /\ container[n].resetViewport = container[n].viewport

\* a page whose raster, text layer and reset are done
C20_Witness ==
    \E n \in 1..Len(container) :
        /\ container[n].raster
        /\ container[n].frags # <<>>
        /\ container[n].page = 2
        /\ container[n].resetViewport = GetViewport(2, 1)

\* C24 (as claimed): when reading the text content of page k or building its
\* text layer fails, the failure is logged, page k has no fragments, and every
\* page after k is still rendered by the pass.
C24_AlignmentFailureIsolated ==
    \A p \in 1..Len(passes) :
        (/\ passes[p].pc = "done"
         /\ passes[p].active
         /\ mounted
         /\ fault.stage \in {"getTextContent", "textLayer"}) =>
            /\ passes[p].warned \/ passes[p].error
            /\ \A n \in 1..Len(container) :
                  (container[n].pass = p /\ container[n].page = fault.page) =>
                     container[n].frags = <<>>
            /\ \A j \in (fault.page + 1)..NumPages :
                  \E n \in 1..Len(container) :
                     /\ container[n].pass = p
                     /\ container[n].page = j
                     /\ container[n].raster

\* C27 (as claimed): once every pass that was started has finished, the
\* container holds pages 1..NumPages of the latest pass, each once, in order.
C27_FinalContainer ==
    (/\ mounted
     /\ fault = NoFault
     /\ \A p \in 1..Len(passes) : passes[p].pc = "done") =>
        /\ Len(container) = NumPages
        /\ \A k \in 1..Len(container) :
              container[k].page = k /\ container[k].pass = Cur

\* what the viewer shows: its pages, each with the tone it was drawn in
Output ==
    [n \in 1..Len(container) |->
        [page |-> container[n].page,
         dark |-> passes[container[n].pass].darkMode,
         raster |-> container[n].raster]]

\* the output of one finished render of the document in a tone
ReferenceOutput(dark) ==
    [k \in 1..NumPages |-> [page |-> k, dark |-> dark, raster |-> TRUE]]

\* C25 (as claimed): after the tone has been toggled twice and every pass has
\* finished, the output is that of the render before the two toggles.
C25_ToneTwiceSameOutput ==
    (/\ mounted
     /\ Len(passes) = 3
     /\ \A p \in 1..Len(passes) : passes[p].pc = "done"
     /\ passes[2].darkMode # passes[1].darkMode
     /\ passes[3].darkMode = passes[1].darkMode) =>
        Output = ReferenceOutput(passes[1].darkMode)

\* C26 (as claimed): the fragment numbered k on a page holds text item k of
\* the page, has the font of item k, and its id names ordinal k.
C26_OrdinalIsItemIndex ==
    \A nk \in Spans :
        LET f == container[nk[1]].frags[nk[2]]
        IN  /\ f.item = nk[2] - 1
            /\ f.fontItem = f.item
            /\ f.id = SpanId(container[nk[1]].page, f.item)

\* C23 (as claimed): in dark mode every drawImage, one that throws included,
\* draws through the inverting filter if it draws, and leaves the filter and
\* the stack of saved states of the context as they were before it.
C23_DrawImageNoLeak ==
    [][(ctx.patched /\ ctx'.images = ctx.images + 1) =>
          /\ ctx'.filter = ctx.filter
          /\ ctx'.stack = ctx.stack
          /\ ~ctx'.failed =>
                /\ Len(ctx'.drawn) = Len(ctx.drawn) + 1
                /\ ctx'.drawn[Len(ctx'.drawn)] = InvertFilter]_vars

\* C22: the outside-click listener of the popup is registered only while the
\* popup is open and only once the deliberate delay has passed since it
\* opened, so no mousedown within the delay is heard by it
C22_ListenerAfterDelay ==
    clickListener => word # <<>> /\ opening.since >= DismissDelay

\* a mousedown arrived while the popup was open without the listener, and
\* the listener has been registered since
C22_Witness ==
    clickListener /\ word # <<>> /\ opening.ignored

\* the events heard last have not been written and their timer is gone
Cancelled == burst.unsaved /\ passes[burst.pass].scrollTimeout = <<>>

\* C21 as stated: every burst of scroll events gets exactly one write, after
\* the quiet period following its last event, of the most recent position
C21_ExactlyOneWrite ==
    /\ burst.writes <= 1
    /\ burst.writes = 1 =>
          burst.writeAfter >= QuietPeriod /\ scrollPosition = <<burst.last>>
    /\ ~Cancelled

\* C21: since the last scroll event there is at most one write, it comes
\* no sooner than the quiet period after that event and stores the most
\* recent position; the write stays pending as long as the pass that heard
\* the event is not torn down
C21_DebouncedUnlessTornDown ==
    /\ burst.writes <= 1
    /\ burst.writes = 1 =>
          burst.writeAfter >= QuietPeriod /\ scrollPosition = <<burst.last>>
    /\ Cancelled => ~passes[burst.pass].active

\* two events closer than the quiet period were followed by one write
C21_Witness ==
    /\ burst.merged >= 2
    /\ burst.writes = 1
    /\ scrollPosition = <<burst.last>>
    /\ passes[burst.pass].active

\* C29: when a pass that started with saved position y has finished and set
\* the scroll offset, and the user never scrolled, the saved position is
\* still y and the offset is y
C29_RerenderKeepsScroll ==
    \A p \in 1..Len(passes) :
        (/\ passes[p].restored
         /\ passes[p].savedAtStart # <<>>
         /\ p = Cur
         /\ mounted
         /\ burst.events = 0)
        => /\ scrollPosition = passes[p].savedAtStart
           /\ scrollTop = passes[p].savedAtStart[1]

\* C30: a pass that has been torn down has no debounce timer, and no write
\* was made by the timer of a pass that had been torn down
C30_NoSaveAfterTeardown ==
    /\ \A p \in 1..Len(passes) :
          ~passes[p].active => passes[p].scrollTimeout = <<>>
    /\ burst.writerActive

\* a pass was torn down with its write pending, and the quiet period has
\* passed since
C30_Witness ==
    /\ burst.unsaved
    /\ ~passes[burst.pass].active
    /\ burst.since >= QuietPeriod

============================================================================
